---- MODULE Spec2Model ----
(***************************************************************************)
(* Model of src/util.py: melt_zillow_dataset (wide -> long reshape) and    *)
(* get_top_regions_by_mom_change (trailing-window ranking).                *)
(*                                                                         *)
(* A DataFrame is a record [columns, rows]; a row is [index, cells] where  *)
(* index is the row's index label and cells maps a column name to a cell.  *)
(* A date label is parsed from its characters.  A numeric cell that may be *)
(* missing is <<v>>, and NaN is <<>>.  A Timestamp is [ym, d]: ym counts   *)
(* months (year * 12 + month - 1), d is the day of the month.              *)
(***************************************************************************)
EXTENDS Integers, Sequences, FiniteSets, TLC

VARIABLES df, before, args, ret, pc

vars == <<df, before, args, ret, pc>>

(* ------------------------------ bounds -------------------------------- *)

\* Rows of a wide table.
MaxWideRows == 2
\* Observed values 0..MaxValue next to NaN, in wide tables.
MaxValue == 1

(* ------------------------------ names --------------------------------- *)

US_COUNTRY_REGION_ID == 102001

RegionID == "RegionID"
RegionName == "RegionName"
SizeRank == "SizeRank"
Date == "Date"
Value == "Value"
None == ""
NaN == <<>>

\* Date labels of the wide table's month columns; the last is no calendar date.
Label_Jan == "2024-01-31"
Label_Feb == "2024-02-29"
Label_Bad == "2023-02-30"

\* The characters of a column label.
Chars(label) ==
    CASE label = Label_Jan -> <<"2", "0", "2", "4", "-", "0", "1", "-", "3", "1">>
      [] label = Label_Feb -> <<"2", "0", "2", "4", "-", "0", "2", "-", "2", "9">>
      [] label = Label_Bad -> <<"2", "0", "2", "3", "-", "0", "2", "-", "3", "0">>
      [] label = RegionName -> <<"R", "e", "g", "i", "o", "n", "N", "a", "m", "e">>
      [] label = SizeRank -> <<"S", "i", "z", "e", "R", "a", "n", "k">>
      [] OTHER -> <<>>

(* ------------------------------ dates --------------------------------- *)

Digit(c) ==
    CASE c = "0" -> 0 [] c = "1" -> 1 [] c = "2" -> 2 [] c = "3" -> 3
      [] c = "4" -> 4 [] c = "5" -> 5 [] c = "6" -> 6 [] c = "7" -> 7
      [] c = "8" -> 8 [] c = "9" -> 9 [] OTHER -> -1

IsLeap(y) == (y % 4 = 0 /\ y % 100 # 0) \/ y % 400 = 0

DaysInMonth(y, m) ==
    IF m = 2 THEN (IF IsLeap(y) THEN 29 ELSE 28)
    ELSE IF m \in {4, 6, 9, 11} THEN 30 ELSE 31

Timestamp(y, m, d) == [ym |-> y * 12 + (m - 1), d |-> d]

\* The fields of an ISO label "YYYY-MM-DD"; -1 where a character is no digit.
LabelYear(s) == Digit(s[1]) * 1000 + Digit(s[2]) * 100 + Digit(s[3]) * 10 + Digit(s[4])
LabelMonth(s) == Digit(s[6]) * 10 + Digit(s[7])
LabelDay(s) == Digit(s[9]) * 10 + Digit(s[10])

\* pd.to_datetime accepts the label: an ISO date of the calendar.
CanParse(label) ==
    LET s == Chars(label)
    IN  /\ Len(s) = 10
        /\ s[5] = "-" /\ s[8] = "-"
        /\ \A i \in {1, 2, 3, 4, 6, 7, 9, 10} : Digit(s[i]) >= 0
        /\ LabelMonth(s) \in 1..12
        /\ LabelDay(s) \in 1..DaysInMonth(LabelYear(s), LabelMonth(s))

to_datetime(label) ==
    LET s == Chars(label)
    IN  Timestamp(LabelYear(s), LabelMonth(s), LabelDay(s))

(* ---------------------------- DataFrame ------------------------------- *)

Range(s) == {s[i] : i \in 1..Len(s)}

Min(a, b) == IF a <= b THEN a ELSE b
Max(a, b) == IF a >= b THEN a ELSE b

\* The subsequence of s at the positions of keep, in order.
RECURSIVE SelectAt(_, _, _)
SelectAt(s, keep, i) ==
    IF i > Len(s) THEN <<>>
    ELSE (IF i \in keep THEN <<s[i]>> ELSE <<>>) \o SelectAt(s, keep, i + 1)

Frame(columns, rows) == [columns |-> columns, rows |-> rows]

EmptyFrame == Frame(<<>>, <<>>)

\* df.drop(columns=fields): a new frame without the named columns.
DropColumns(d, fields) ==
    LET keepc == SelectAt(d.columns, {i \in 1..Len(d.columns) : d.columns[i] \notin Range(fields)}, 1)
    IN  Frame(keepc,
              [i \in 1..Len(d.rows) |->
                  [index |-> d.rows[i].index,
                   cells |-> [c \in Range(keepc) |-> d.rows[i].cells[c]]]])

\* As IsinIndex, comparing with the first excluded id only.
IsinIndex_FirstOnly(d, regions) ==
    {d.rows[i].index : i \in {j \in 1..Len(d.rows) : d.rows[j].cells[RegionID] = regions[1]}}

\* df[df['RegionID'].isin(regions)].index: the index labels of the matching rows.
IsinIndex(d, regions) ==
    {d.rows[i].index : i \in {j \in 1..Len(d.rows) : d.rows[j].cells[RegionID] \in Range(regions)}}

\* df.drop(labels): the frame without the rows that carry one of the labels.
DropRows(d, labels) ==
    Frame(d.columns,
          SelectAt(d.rows, {i \in 1..Len(d.rows) : d.rows[i].index \notin labels}, 1))

\* As ValueVars, taking the first remaining column for one more identifier.
ValueVars_SkipsFirst(d, id_fields) ==
    LET vv == SelectAt(d.columns, {i \in 1..Len(d.columns) : d.columns[i] \notin Range(id_fields)}, 1)
    IN  IF Len(vv) > 0 THEN Tail(vv) ELSE vv

\* The columns melt unpivots: those that are not identifiers, in column order.
ValueVars(d, id_fields) ==
    SelectAt(d.columns, {i \in 1..Len(d.columns) : d.columns[i] \notin Range(id_fields)}, 1)

\* df.melt(id_vars, var_name, value_name): column-major, one row per
\* (row, value column), under a fresh RangeIndex.
Melt(d, id_fields, date_col, value_col) ==
    LET vv == ValueVars(d, id_fields)
        R == Len(d.rows)
    IN  Frame(id_fields \o <<date_col, value_col>>,
              [k \in 1..(R * Len(vv)) |->
                  LET j == ((k - 1) \div R) + 1
                      i == ((k - 1) % R) + 1
                  IN  [index |-> k - 1,
                       cells |-> [c \in Range(id_fields) \cup {date_col, value_col} |->
                                    IF c = date_col THEN vv[j]
                                    ELSE IF c = value_col THEN d.rows[i].cells[vv[j]]
                                    ELSE d.rows[i].cells[c]]]])

\* df[col] = pd.to_datetime(df[col])
ParseColumn(d, col) ==
    Frame(d.columns,
          [i \in 1..Len(d.rows) |->
              [index |-> d.rows[i].index,
               cells |-> [c \in DOMAIN d.rows[i].cells |->
                            IF c = col THEN to_datetime(d.rows[i].cells[c])
                            ELSE d.rows[i].cells[c]]]])

\* The row has no value in the column.
IsNull(cell) == Len(cell) = 0

\* As DropNa, dropping the zeros too (what the comment at line 24 announces).
DropNa_OrZero(d, col) ==
    Frame(d.columns,
          SelectAt(d.rows, {i \in 1..Len(d.rows) :
                               ~IsNull(d.rows[i].cells[col]) /\ d.rows[i].cells[col] # <<0>>}, 1))

\* df.dropna(subset=[col])
DropNa(d, col) ==
    Frame(d.columns,
          SelectAt(d.rows, {i \in 1..Len(d.rows) : ~IsNull(d.rows[i].cells[col])}, 1))

\* df.set_index(col): the column becomes the index.
SetIndex(d, col) ==
    LET keepc == SelectAt(d.columns, {i \in 1..Len(d.columns) : d.columns[i] # col}, 1)
    IN  Frame(keepc,
              [i \in 1..Len(d.rows) |->
                  [index |-> d.rows[i].cells[col],
                   cells |-> [c \in Range(keepc) |-> d.rows[i].cells[c]]]])

(* ----------------------- melt_zillow_dataset -------------------------- *)

Raised(kind) == [status |-> kind, frame |-> EmptyFrame]
Returned(d) == [status |-> "ok", frame |-> d]

\* The frame the name df is bound to after line 13, and whether it is still
\* the caller's object.
AfterDropFields(d, a) ==
    IF Len(a.fields_to_drop) > 0 THEN DropColumns(d, a.fields_to_drop) ELSE d

\* As IsCallersObject, had line 13 dropped the columns in place.
IsCallersObject_Always(a) == Len(a.fields_to_drop) >= 0

IsCallersObject(a) == Len(a.fields_to_drop) = 0

\* Line 13 raises when a named column is missing.
DropFieldsRaises(d, a) ==
    Len(a.fields_to_drop) > 0 /\ ~(Range(a.fields_to_drop) \subseteq Range(d.columns))

\* Line 16, on the frame df is bound to.
DropRegionsRaises(d1, a) ==
    Len(a.regions_to_drop) > 0 /\ RegionID \notin Range(d1.columns)

AfterDropRegions(d1, a) ==
    IF Len(a.regions_to_drop) > 0 THEN DropRows(d1, IsinIndex(d1, a.regions_to_drop)) ELSE d1

\* Lines 19-31, on the frame left by line 16.
Reshape(d2, a) ==
    IF ~(Range(a.id_fields) \subseteq Range(d2.columns)) THEN Raised("KeyError")
    ELSE LET melted == Melt(d2, a.id_fields, a.date_col, a.value_col)
         IN  IF \E i \in 1..Len(melted.rows) : ~CanParse(melted.rows[i].cells[a.date_col])
             THEN Raised("ParserError")
             ELSE LET parsed == ParseColumn(melted, a.date_col)
                      kept == IF a.drop_na THEN DropNa(parsed, a.value_col) ELSE parsed
                  IN  IF a.index_field # None
                      THEN (IF a.index_field \in Range(kept.columns)
                            THEN Returned(SetIndex(kept, a.index_field))
                            ELSE Raised("KeyError"))
                      ELSE Returned(kept)

\* What the call returns or raises.
MeltResult(d, a) ==
    IF DropFieldsRaises(d, a) THEN Raised("KeyError")
    ELSE IF DropRegionsRaises(AfterDropFields(d, a), a) THEN Raised("KeyError")
    ELSE Reshape(AfterDropRegions(AfterDropFields(d, a), a), a)

\* The caller's table after the call: line 16 works in place on whatever df
\* is bound to, which is the caller's object only if line 13 did not rebind it.
CallerAfter(d, a) ==
    IF IsCallersObject(a) /\ ~DropRegionsRaises(d, a) THEN AfterDropRegions(d, a) ELSE d

melt_zillow_dataset ==
    /\ pc = "melt"
    /\ ret' = MeltResult(df, args)
    /\ df' = CallerAfter(df, args)
    /\ pc' = "melted"
    /\ UNCHANGED <<before, args>>

(* -------------------------- wide inputs ------------------------------- *)

\* The regions of a wide table: two regions and the country aggregate.
WideRegionIds == {1, 2, US_COUNTRY_REGION_ID}

WideName(id) == IF id = US_COUNTRY_REGION_ID THEN "United States" ELSE IF id = 1 THEN "A" ELSE "B"

ValueCells == {NaN} \cup {<<v>> : v \in 0..MaxValue}

\* Column layouts after the two identifier columns.
WideLayouts ==
    { <<RegionID, RegionName>> \o extra :
        extra \in { <<>>, <<Label_Jan>>, <<Label_Jan, Label_Feb>>,
                    <<SizeRank, Label_Jan>>, <<Label_Bad>> } }

\* The columns whose cells are observations.
ObservedColumns(cols) == Range(cols) \ {RegionID, RegionName, SizeRank}

\* One row per region (at most MaxWideRows of them), under the default RangeIndex.
WideFrame(cols, ids, vals) ==
    Frame(cols,
          [i \in 1..Len(ids) |->
              [index |-> i - 1,
               cells |-> [c \in Range(cols) |->
                            IF c = RegionID THEN ids[i]
                            ELSE IF c = RegionName THEN WideName(ids[i])
                            ELSE IF c = SizeRank THEN <<i>>
                            ELSE vals[i][c]]]])

DistinctIds(n) == {f \in [1..n -> WideRegionIds] : \A i, j \in 1..n : f[i] = f[j] => i = j}

\* Calls: the usual ones, the ones that leave RegionName to fields_to_drop
\* or to the unpivot, and the ones that ask for an index.
MeltArgs ==
    [ id_fields : {<<RegionID, RegionName>>},
      fields_to_drop : {<<>>, <<SizeRank>>},
      regions_to_drop : {<<>>, <<US_COUNTRY_REGION_ID>>, <<1, US_COUNTRY_REGION_ID>>},
      date_col : {Date}, value_col : {Value}, index_field : {None},
      drop_na : BOOLEAN ]
    \cup
    [ id_fields : {<<RegionID>>},
      fields_to_drop : {<<>>, <<RegionName>>},
      regions_to_drop : {<<>>, <<US_COUNTRY_REGION_ID>>},
      date_col : {Date}, value_col : {Value}, index_field : {None},
      drop_na : BOOLEAN ]
    \cup
    [ id_fields : {<<RegionID, RegionName>>},
      fields_to_drop : {<<>>},
      regions_to_drop : {<<US_COUNTRY_REGION_ID>>},
      date_col : {Date}, value_col : {Value}, index_field : {Date, SizeRank},
      drop_na : BOOLEAN ]

InitMelt ==
    /\ \E cols \in WideLayouts, n \in 0..MaxWideRows :
          \E ids \in DistinctIds(n), vals \in [1..n -> [ObservedColumns(cols) -> ValueCells]] :
              df = WideFrame(cols, ids, vals)
    /\ before = df
    /\ args \in MeltArgs
    /\ ret = Raised("pending")
    /\ pc = "melt"

SpecMelt == InitMelt /\ [][melt_zillow_dataset]_vars

(* ----------------- properties of melt_zillow_dataset ------------------ *)

Melted == pc = "melted" /\ ret.status = "ok"

\* A column of the returned frame, whether it is a column or the index.
Field(r, c) == IF args.index_field = c THEN r.index ELSE r.cells[c]

\* The rows of the table as passed whose region is not excluded.
RemainingRows ==
    {i \in 1..Len(before.rows) : before.rows[i].cells[RegionID] \notin Range(args.regions_to_drop)}

\* The columns of the table as passed that are neither dropped nor identifiers.
RemainingValueColumns ==
    Range(before.columns) \ (Range(args.fields_to_drop) \cup Range(args.id_fields))

\* The returned rows that stand for cell (i, c) of the table as passed.
RowsFor(i, c) ==
    {k \in 1..Len(ret.frame.rows) :
        /\ \A f \in Range(args.id_fields) :
              Field(ret.frame.rows[k], f) = before.rows[i].cells[f]
        /\ Field(ret.frame.rows[k], args.date_col) = to_datetime(c)
        /\ Field(ret.frame.rows[k], args.value_col) = before.rows[i].cells[c]}

\* C1: with drop_na=False the output has exactly R*C rows, one for each
\* (remaining row, remaining value column) pair, carrying the row's identifier
\* values, the column's date and the cell's value.
C1_RowPerCell ==
    (Melted /\ ~args.drop_na) =>
        /\ Len(ret.frame.rows) = Cardinality(RemainingRows) * Cardinality(RemainingValueColumns)
        /\ \A i \in RemainingRows : \A c \in RemainingValueColumns :
              Cardinality(RowsFor(i, c)) = 1

C1_Witness ==
    /\ Melted /\ ~args.drop_na
    /\ Cardinality(RemainingRows) = 1 /\ Len(before.rows) = 2
    /\ Cardinality(RemainingValueColumns) = 2
    /\ Len(ret.frame.rows) = 2
    /\ \E k \in 1..2 : IsNull(Field(ret.frame.rows[k], args.value_col))

\* C2: no returned row has a region identifier of the exclusion set.
C2_NoExcludedRegion ==
    Melted =>
        \A k \in 1..Len(ret.frame.rows) :
            Field(ret.frame.rows[k], RegionID) \notin Range(args.regions_to_drop)

C2_Witness ==
    /\ Melted
    /\ Len(ret.frame.rows) > 0
    /\ \E i \in 1..Len(before.rows) :
          before.rows[i].cells[RegionID] = US_COUNTRY_REGION_ID
    /\ US_COUNTRY_REGION_ID \in Range(args.regions_to_drop)

\* The cells of the table as passed that the call keeps.
KeptCells ==
    {p \in RemainingRows \X RemainingValueColumns :
        ~args.drop_na \/ before.rows[p[1]].cells[p[2]] # NaN}

WithoutExcluded == Frame(before.columns, SelectAt(before.rows, RemainingRows, 1))

\* C9 as claimed: with a non-empty exclusion set, whatever fields_to_drop is,
\* the caller's table loses the rows of the excluded regions and nothing else.
C9_AlwaysMutated ==
    (Melted /\ Len(args.regions_to_drop) > 0) => df = WithoutExcluded

\* C9 as amended: that happens when fields_to_drop is empty; when it is not,
\* the caller's table is as it was passed.
C9_MutatedUnlessRebound ==
    (pc = "melted" /\ Len(args.regions_to_drop) > 0) =>
        df = IF Len(args.fields_to_drop) = 0 THEN WithoutExcluded ELSE before

C9_Witness ==
    /\ pc = "melted"
    /\ Len(args.regions_to_drop) > 0 /\ Len(args.fields_to_drop) = 0
    /\ Len(before.rows) = 2 /\ Len(df.rows) = 1
    /\ df.rows[1].cells[RegionID] \notin Range(args.regions_to_drop)
    /\ df.columns = before.columns

(* ------------------- get_top_regions_by_mom_change -------------------- *)

EestimationDate == "EestimationDate"
MoM_Change == "MoM_Change"

\* The missing Timestamp: what max() of an empty date column gives.
NaT == [ym |-> -1, d |-> 0]

DaysIn(ym) == DaysInMonth(ym \div 12, (ym % 12) + 1)

\* a >= b on Timestamps; a comparison with NaT is false.
TsGeq(a, b) ==
    /\ a # NaT /\ b # NaT
    /\ a.ym > b.ym \/ (a.ym = b.ym /\ a.d >= b.d)

\* df[col].max()
RECURSIVE MaxDateFrom(_, _, _)
MaxDateFrom(rows, col, i) ==
    IF i > Len(rows) THEN NaT
    ELSE LET rest == MaxDateFrom(rows, col, i + 1)
             here == rows[i].cells[col]
         IN  IF rest = NaT \/ TsGeq(here, rest) THEN here ELSE rest

MaxDate(d, col) == MaxDateFrom(d.rows, col, 1)

\* t - pd.DateOffset(months=n): calendar months back, the day clipped to the
\* length of the month arrived at.
SubtractMonths(t, n) ==
    IF t = NaT THEN NaT
    ELSE [ym |-> t.ym - n, d |-> Min(t.d, DaysIn(t.ym - n))]

\* As InWindow, with a window that is open at its start.
InWindow_Strict(date, start) == TsGeq(date, start) /\ date # start

\* df[date_col] >= last_n_months, for one row.
InWindow(date, start) == TsGeq(date, start)

\* df[df[date_col] >= last_n_months]
LastNMonths(d, a) ==
    LET start == SubtractMonths(MaxDate(d, a.date_col), a.months)
    IN  Frame(d.columns,
              SelectAt(d.rows, {i \in 1..Len(d.rows) : InWindow(d.rows[i].cells[a.date_col], start)}, 1))

\* The order of region names, by their first letter.
NameOrd(name) == CASE name = "A" -> 65 [] name = "B" -> 66 [] name = "C" -> 67 [] OTHER -> 0

KeyLess(k1, k2) == k1[1] < k2[1] \/ (k1[1] = k2[1] /\ NameOrd(k1[2]) < NameOrd(k2[2]))

\* The keys in ascending order, as groupby(sort=True) lists its groups.
RECURSIVE SortedKeys(_)
SortedKeys(keys) ==
    IF keys = {} THEN <<>>
    ELSE LET first == CHOOSE k \in keys : \A o \in keys \ {k} : KeyLess(k, o)
         IN  <<first>> \o SortedKeys(keys \ {first})

\* As GroupOf, grouping by the region id alone.
GroupOf_IdOnly(d, a, key) ==
    {i \in 1..Len(d.rows) : d.rows[i].cells[a.region_id_col] = key[1]}

\* The rows of one (region id, region name) group.
GroupOf(d, a, key) ==
    {i \in 1..Len(d.rows) :
        /\ d.rows[i].cells[a.region_id_col] = key[1]
        /\ d.rows[i].cells[a.region_name_col] = key[2]}

RECURSIVE SumOf(_, _, _)
SumOf(d, col, rowset) ==
    IF rowset = {} THEN 0
    ELSE LET i == CHOOSE j \in rowset : TRUE
         IN  d.rows[i].cells[col] + SumOf(d, col, rowset \ {i})

\* A mean is kept as the fraction sum / count.
Mean(d, col, rowset) == [num |-> SumOf(d, col, rowset), den |-> Cardinality(rowset)]

\* x >= y and x = y on means.
MeanGeq(x, y) == x.num * y.den >= y.num * x.den
MeanEq(x, y) == x.num * y.den = y.num * x.den

\* df.groupby([id, name])[col].mean().reset_index()
GroupMean(d, a) ==
    LET keys == SortedKeys({<<d.rows[i].cells[a.region_id_col], d.rows[i].cells[a.region_name_col]>> :
                               i \in 1..Len(d.rows)})
    IN  Frame(<<a.region_id_col, a.region_name_col, a.mom_change_col>>,
              [g \in 1..Len(keys) |->
                  [index |-> g - 1,
                   cells |-> [c \in {a.region_id_col, a.region_name_col, a.mom_change_col} |->
                                IF c = a.region_id_col THEN keys[g][1]
                                ELSE IF c = a.region_name_col THEN keys[g][2]
                                ELSE Mean(d, a.mom_change_col, GroupOf(d, a, keys[g]))]]])

Orderings(n) == {p \in [1..n -> 1..n] : \A i, j \in 1..n : p[i] = p[j] => i = j}

\* As SortValuesDescending, with ascending left at its default.
SortValuesAscending(d, col) ==
    { Frame(d.columns, [k \in 1..Len(d.rows) |-> d.rows[p[k]]]) :
        p \in {q \in Orderings(Len(d.rows)) :
                  \A k \in 1..(Len(d.rows) - 1) :
                      MeanGeq(d.rows[q[k + 1]].cells[col], d.rows[q[k]].cells[col])} }

\* df.sort_values(by=col, ascending=False): the sort is the default
\* kind='quicksort', which is not stable, so rows with equal keys may come
\* out in any order.  The set of the orders the sort may produce.
SortValuesDescending(d, col) ==
    { Frame(d.columns, [k \in 1..Len(d.rows) |-> d.rows[p[k]]]) :
        p \in {q \in Orderings(Len(d.rows)) :
                  \A k \in 1..(Len(d.rows) - 1) :
                      MeanGeq(d.rows[q[k]].cells[col], d.rows[q[k + 1]].cells[col])} }

\* As HeadRows, taking the rows from the other end (df.tail(n)).
TailRows(d, n) ==
    LET len == Len(d.rows)
        cnt == IF n >= 0 THEN Min(n, len) ELSE Max(0, len + n)
    IN  Frame(d.columns, SubSeq(d.rows, len - cnt + 1, len))

\* df.head(n): the first n rows; for a negative n, all but the last |n|.
HeadRows(d, n) ==
    LET len == Len(d.rows)
        cnt == IF n >= 0 THEN Min(n, len) ELSE Max(0, len + n)
    IN  Frame(d.columns, SubSeq(d.rows, 1, cnt))

\* One call, with the caller's months and top_n.
TopCall(months, top_n) ==
    /\ pc = "top"
    /\ LET a == [args EXCEPT !.months = months, !.top_n = top_n]
       IN  /\ args' = a
           /\ \E sorted \in SortValuesDescending(GroupMean(LastNMonths(df, a), a), a.mom_change_col) :
                  ret' = Returned(HeadRows(sorted, a.top_n))
    /\ pc' = "ranked"
    /\ UNCHANGED <<df, before>>

(* -------------------------- long inputs ------------------------------- *)

\* Rows of a long table.
MaxLongRows == 4
\* Change values 0..MaxChange.
MaxChange == 1
\* Result counts -1..MaxTopN.
MaxTopN == 3

\* The (region id, region name) pairs of a long table, its dates (month
\* ends, so that the window start is clipped) and its change values.
LongRegions == {<<1, "A">>, <<1, "B">>, <<2, "B">>}
LongDates == {Timestamp(2024, 1, 31), Timestamp(2024, 2, 29), Timestamp(2024, 3, 31)}
LongChanges == 0..MaxChange

\* Window lengths, from none to the span of the dates.
LongMonths == 0..(Cardinality(LongDates) - 1)

Slots == LongRegions \X LongDates

SlotLess(s, t) ==
    \/ ~TsGeq(s[2], t[2])
    \/ s[2] = t[2] /\ KeyLess(s[1], t[1])

RECURSIVE SortedSlots(_)
SortedSlots(slots) ==
    IF slots = {} THEN <<>>
    ELSE LET first == CHOOSE s \in slots : \A o \in slots \ {s} : SlotLess(s, o)
         IN  <<first>> \o SortedSlots(slots \ {first})

\* The long table with one row per slot, by date and region, as a reshape
\* leaves them, under the default RangeIndex.
LongFrame(slots, change) ==
    LET order == SortedSlots(slots)
    IN  Frame(<<RegionID, RegionName, EestimationDate, MoM_Change>>,
              [i \in 1..Len(order) |->
                  [index |-> i - 1,
                   cells |-> [c \in {RegionID, RegionName, EestimationDate, MoM_Change} |->
                                IF c = RegionID THEN order[i][1][1]
                                ELSE IF c = RegionName THEN order[i][1][2]
                                ELSE IF c = EestimationDate THEN order[i][2]
                                ELSE change[order[i]]]]])

\* The defaults of the signature.
TopDefaults ==
    [ months |-> 12, top_n |-> 25,
      date_col |-> EestimationDate,
      region_id_col |-> RegionID,
      region_name_col |-> RegionName,
      mom_change_col |-> MoM_Change ]

get_top_regions_by_mom_change ==
    \E months \in LongMonths, top_n \in (-1)..MaxTopN : TopCall(months, top_n)

InitTop ==
    /\ \E slots \in {x \in SUBSET Slots : Cardinality(x) <= MaxLongRows} :
          \E change \in [slots -> LongChanges] : df = LongFrame(slots, change)
    /\ before = df
    /\ args = TopDefaults
    /\ ret = Raised("pending")
    /\ pc = "top"

SpecTop == InitTop /\ [][get_top_regions_by_mom_change]_vars

(* ------------ properties of get_top_regions_by_mom_change ------------- *)

Ranked == pc = "ranked"

RowKey(r) == <<r.cells[RegionID], r.cells[RegionName]>>
RetKey(k) == RowKey(ret.frame.rows[k])
RetMetric(k) == ret.frame.rows[k].cells[MoM_Change]
RetKeys == {RetKey(k) : k \in 1..Len(ret.frame.rows)}

DatesOf(d) == {d.rows[i].cells[EestimationDate] : i \in 1..Len(d.rows)}
Latest(dates) == CHOOSE t \in dates : \A o \in dates : TsGeq(t, o)
Earliest(dates) == CHOOSE t \in dates : \A o \in dates : TsGeq(o, t)

\* The maximum date of the table minus `months` calendar months.
WindowStart == SubtractMonths(Latest(DatesOf(df)), args.months)

\* The rows of the table at or after the window start.
Window ==
    LET start == WindowStart
    IN  {i \in 1..Len(df.rows) : TsGeq(df.rows[i].cells[EestimationDate], start)}

\* The (region id, region name) pairs of a set of rows, and the rows of a pair.
KeysIn(rowset) == {RowKey(df.rows[i]) : i \in rowset}
RowsIn(rowset, key) == {i \in rowset : RowKey(df.rows[i]) = key}
AllRows == 1..Len(df.rows)

RECURSIVE ChangeSum(_)
ChangeSum(rowset) ==
    IF rowset = {} THEN 0
    ELSE LET i == CHOOSE j \in rowset : TRUE
         IN  df.rows[i].cells[MoM_Change] + ChangeSum(rowset \ {i})

\* C3 as claimed: the result has min(top_n, number of qualifying regions)
\* rows, and none when the table is empty or top_n <= 0.
C3_LengthIsMinOrZero ==
    Ranked =>
        Len(ret.frame.rows) =
            IF Len(df.rows) = 0 \/ args.top_n <= 0 THEN 0
            ELSE Min(args.top_n, Cardinality(KeysIn(Window)))

\* C4: each returned row stands for one (region id, region name) pair with a
\* row in the window, its metric is the mean of the pair's in-window change
\* values, a pair with no in-window row is absent, and without truncation
\* every pair with an in-window row is present.
C4_WindowMeans ==
    Ranked =>
        LET win == Window
            keys == KeysIn(win)
        IN  /\ \A k \in 1..Len(ret.frame.rows) :
                  LET rowset == RowsIn(win, RetKey(k))
                  IN  /\ rowset # {}
                      /\ RetMetric(k).den = Cardinality(rowset)
                      /\ RetMetric(k).num = ChangeSum(rowset)
            /\ \A k, l \in 1..Len(ret.frame.rows) : RetKey(k) = RetKey(l) => k = l
            /\ args.top_n >= Cardinality(keys) => RetKeys = keys

C4_Witness ==
    /\ Ranked
    /\ args.top_n >= Cardinality(KeysIn(Window))
    /\ KeysIn(AllRows) \ KeysIn(Window) # {}
    /\ \E k \in 1..Len(ret.frame.rows) :
          /\ Cardinality(RowsIn(Window, RetKey(k))) = 2
          /\ Cardinality(RowsIn(AllRows, RetKey(k))) = 3
          /\ RetMetric(k) = [num |-> 1, den |-> 2]

\* The table holds one change value per region per month, for two months or more.
Monthly ==
    LET dates == DatesOf(df)
    IN  /\ Cardinality(dates) >= 2
        /\ \A t, u \in dates : t.ym - u.ym < Cardinality(dates)
        /\ \A key \in KeysIn(AllRows) : \A t \in dates :
              \E i \in RowsIn(AllRows, key) : df.rows[i].cells[EestimationDate] = t

LatestChange(key) ==
    LET latest == Latest(DatesOf(df))
        i == CHOOSE j \in RowsIn(AllRows, key) : df.rows[j].cells[EestimationDate] = latest
    IN  df.rows[i].cells[MoM_Change]

\* C5 as claimed: on monthly data, months=1 and top_n=1 return one row, for
\* the region whose change at the most recent date is highest, with that
\* change for its metric.
C5_MostRecentMonthOnly ==
    (Ranked /\ args.months = 1 /\ args.top_n = 1 /\ Monthly) =>
        /\ Len(ret.frame.rows) = 1
        /\ \A key \in KeysIn(AllRows) : LatestChange(RetKey(1)) >= LatestChange(key)
        /\ MeanEq(RetMetric(1), [num |-> LatestChange(RetKey(1)), den |-> 1])

\* C6: the metric never increases from one returned row to the next.
C6_NonIncreasing ==
    Ranked =>
        \A k \in 1..(Len(ret.frame.rows) - 1) : MeanGeq(RetMetric(k), RetMetric(k + 1))

C6_Witness ==
    /\ Ranked
    /\ Len(ret.frame.rows) = 3
    /\ ~MeanEq(RetMetric(1), RetMetric(2)) /\ ~MeanEq(RetMetric(2), RetMetric(3))
    /\ KeyLess(RetKey(3), RetKey(1))

\* The window reaches back to the earliest date of the table.
WindowCoversTable == TsGeq(Earliest(DatesOf(df)), WindowStart)

\* C7: with a window that covers the table's date range, the result is one
\* that grouping, averaging, sorting and truncating all the rows, with no
\* date filter, gives.
C7_FullWindowIsNoFilter ==
    (Ranked /\ Len(df.rows) > 0 /\ WindowCoversTable) =>
        \E sorted \in SortValuesDescending(GroupMean(df, args), MoM_Change) :
            ret.frame = HeadRows(sorted, args.top_n)

C7_Witness ==
    /\ Ranked
    /\ Len(df.rows) > 0
    /\ WindowStart = Earliest(DatesOf(df))
    /\ Earliest(DatesOf(df)) # Latest(DatesOf(df))
    /\ Len(ret.frame.rows) = 2
    /\ \E k \in 1..2 : RetMetric(k).den = 2

Scores ==
    LET win == Window
    IN  {[key |-> k,
          mean |-> [num |-> ChangeSum(RowsIn(win, k)), den |-> Cardinality(RowsIn(win, k))]] :
            k \in KeysIn(win)}

\* The scores, highest metric first and equal metrics by key.
RECURSIVE Ranking(_)
Ranking(scores) ==
    IF scores = {} THEN <<>>
    ELSE LET best == CHOOSE b \in scores : \A o \in scores :
                        /\ MeanGeq(b.mean, o.mean)
                        /\ (MeanEq(b.mean, o.mean) /\ o # b) => KeyLess(b.key, o.key)
         IN  <<best>> \o Ranking(scores \ {best})

====
